---- MODULE Spec2Model ----
(***************************************************************************)
(* A model of the canvas reader's core: the line wrapper and the          *)
(* contextual search of reader-utils, the scrollbar controller of          *)
(* scrollbar.js and the worker's message loop (reader.worker).             *)
(*                                                                         *)
(* Strings are sequences of one-character strings.  Pixel quantities are   *)
(* integers.  The line-height multiplier is held in tenths (11 is 1.1).    *)
(***************************************************************************)
EXTENDS Integers, Sequences, FiniteSets, TLC

VARIABLES
    wrapIn,      \* the arguments of one reduceLinesWithNumbers call
    wrapOut,     \* its result, once it has returned
    searchIn,    \* the list and the query of one searcher call
    searchOut,   \* its result, once it has returned
    sb,          \* the scrollbar: its sb object, with minScroll and the
                 \* constructor's canvasWidth that its closures hold
    renders,     \* calls of the scrollbar's updateCanvas callback made by the
                 \* last operation
    lastOp,      \* the last operation or message handled, with its argument
    ctx,         \* the worker's 2d context: whether it is set, and its font
    width,       \* the worker's canvas width
    height,      \* the worker's canvas height
    searchText,  \* the worker's current query
    searcher,    \* the memoized searcher: the list it was built over, its cache
    lineHeight,  \* the line height multiplier, in tenths
    size,        \* the font size
    rawContent,  \* the fetched text, once there is one
    lines,       \* the lines on display
    linesRaw,    \* the Line Table
    fetches,     \* per route, the fetches that have not settled yet
    frames,      \* requested animation frames that have not run yet
    threw,       \* whether the last message handler threw
    surface,     \* what the canvas shows: a centred message or the rows
    drawn,       \* the rows on the canvas: the fillText calls of the last
                 \* updateCanvas, in order (none once textCenter has cleared it)
    currentRoute, \* the route of the newest INIT
    hook,        \* one useReaderAutoScroll instance: its props, its ref and the
                 \* interval timers that are set
    posted       \* the messages posted to the worker by the last step

wrapVars == <<wrapIn, wrapOut>>
hookVars == <<hook, posted>>
searchVars == <<searchIn, searchOut>>
sbVars == <<sb, renders, lastOp>>
workerVars == <<ctx, width, height, searchText, searcher, lineHeight, size, rawContent,
                lines, linesRaw, fetches, frames, threw, surface, drawn, currentRoute>>
vars == <<wrapIn, wrapOut, searchIn, searchOut, sb, renders, lastOp, ctx, width, height,
          searchText, searcher, lineHeight, size, rawContent, lines, linesRaw, fetches,
          frames, threw, surface, drawn, currentRoute, hook, posted>>

-----------------------------------------------------------------------------
(* Bounds of the model. *)

\* Longest text handed to the wrapper.
MaxTextLen == 5
\* Longest list handed to the searcher.
MaxLines == 4
\* Most fetches and animation frames the worker has outstanding at a time.
MaxPending == 2

\* Most interval timers one hook instance sets.
MaxTimers == 3

-----------------------------------------------------------------------------
(* Strings. *)

LINE_BREAK == "\n"
SPACE == " "
TAB == "\t"

\* The characters texts are drawn from.
Alphabet == {"a", "A", "b", SPACE, TAB, LINE_BREAK}

\* What String.prototype.trim strips.
IsWhitespace(c) == c \in {SPACE, TAB, LINE_BREAK}

Last(s) == s[Len(s)]
Front(s) == SubSeq(s, 1, Len(s) - 1)

RECURSIVE Flatten(_)
Flatten(ss) == IF ss = <<>> THEN <<>> ELSE Head(ss) \o Flatten(Tail(ss))

\* String.prototype.toLowerCase, per character.
LowerChar(c) == IF c = "A" THEN "a" ELSE c
toLowerCase(s) == [i \in 1..Len(s) |-> LowerChar(s[i])]

\* R.split(sep): the pieces between the separators; '' splits into [''].
RECURSIVE SplitFrom(_, _, _)
SplitFrom(s, sep, cur) ==
    IF s = <<>> THEN <<cur>>
    ELSE IF Head(s) = sep THEN <<cur>> \o SplitFrom(Tail(s), sep, <<>>)
    ELSE SplitFrom(Tail(s), sep, Append(cur, Head(s)))
split(sep, s) == SplitFrom(s, sep, <<>>)
splitLines(s) == split(LINE_BREAK, s)

\* R.trim: strips leading and trailing whitespace.
RECURSIVE TrimLeft(_)
TrimLeft(s) ==
    IF s # <<>> /\ IsWhitespace(Head(s)) THEN TrimLeft(Tail(s)) ELSE s
RECURSIVE TrimRight(_)
TrimRight(s) ==
    IF s # <<>> /\ IsWhitespace(Last(s)) THEN TrimRight(Front(s)) ELSE s
trim(s) == TrimRight(TrimLeft(s))

\* R.join(sep): the pieces with sep between them.
RECURSIVE join(_, _)
join(sep, ws) ==
    IF ws = <<>> THEN <<>>
    ELSE IF Len(ws) = 1 THEN ws[1]
    ELSE ws[1] \o <<sep>> \o join(sep, Tail(ws))

\* String.prototype.indexOf(needle) >= 0.
Contains(hay, needle) ==
    \E i \in 0..(Len(hay) - Len(needle)) :
        SubSeq(hay, i + 1, i + Len(needle)) = needle

-----------------------------------------------------------------------------
(* Word measurement.  The context's measureText is the platform's; a font  *)
(* is modelled by the advance width it gives each character.               *)

Fonts == {"mono1", "mono2", "prop"}

CharWidth(font, c) ==
    CASE font = "mono1" -> 1
      [] font = "mono2" -> 2
      [] OTHER -> IF c = "A" THEN 4 ELSE 1

RECURSIVE measureText(_, _)
measureText(font, txt) ==
    IF txt = <<>> THEN 0
    ELSE CharWidth(font, Head(txt)) + measureText(font, Tail(txt))

\* measureWordSet(context): join with ' ', measure, take the width.
measureWordSet(font, words) == measureText(font, join(SPACE, words))

-----------------------------------------------------------------------------
(* The line wrapper. *)

\* The words of each logical line: split on '\n', then on ' ', each trimmed.
LogicalWords(text) ==
    LET ls == split(LINE_BREAK, text)
    IN  [i \in 1..Len(ls) |->
            LET ws == split(SPACE, ls[i]) IN [j \in 1..Len(ws) |-> trim(ws[j])]]

\* The reducer: measure the last buffer with the word appended; open a new
\* buffer holding the word when that exceeds maxWidth, else append to the last.
WrapStepNoBreak(font, maxWidth, bufs, word) ==
    [bufs EXCEPT ![Len(bufs)] = Append(@, word)]
WrapStep(font, maxWidth, bufs, word) ==
    IF measureWordSet(font, Append(Last(bufs), word)) > maxWidth
    THEN Append(bufs, <<word>>)
    ELSE [bufs EXCEPT ![Len(bufs)] = Append(@, word)]

\* R.reduce(step, [[]]) over the words of one logical line.
RECURSIVE WrapReduce(_, _, _, _)
WrapReduce(font, maxWidth, bufs, words) ==
    IF words = <<>> THEN bufs
    ELSE WrapReduce(font, maxWidth, WrapStep(font, maxWidth, bufs, Head(words)),
                    Tail(words))

\* The buffers of each logical line, before R.chain flattens them.
WrapGroups(font, maxWidth, text) ==
    LET lw == LogicalWords(text)
    IN  [i \in 1..Len(lw) |-> WrapReduce(font, maxWidth, <<<<>>>>, lw[i])]

\* lines.map((text, index) => ({ text, lineNum: index + 1 }))
NumberLines(texts) ==
    [k \in 1..Len(texts) |-> [text |-> texts[k], lineNum |-> k]]

\* For each buffer of the flattened output, the logical line it came from.
RECURSIVE SourceOfGroups(_, _)
SourceOfGroups(groups, i) ==
    IF i > Len(groups) THEN <<>>
    ELSE [k \in 1..Len(groups[i]) |-> i] \o SourceOfGroups(groups, i + 1)

reduceLinesWithNumbers(font, maxWidth, text) ==
    LET groups == WrapGroups(font, maxWidth, text)
        flat == Flatten(groups)
        texts == [k \in 1..Len(flat) |-> join(SPACE, flat[k])]
    IN  NumberLines(texts)

-----------------------------------------------------------------------------
(* One call of the wrapper on arbitrary arguments. *)

RECURSIVE StringsUpTo(_, _)
StringsUpTo(chars, n) ==
    IF n = 0 THEN {<<>>}
    ELSE LET shorter == StringsUpTo(chars, n - 1)
         IN  shorter \cup {Append(s, c) : s \in shorter, c \in chars}

WrapAlphabet == {"a", "A", SPACE, TAB, LINE_BREAK}
WrapFonts == {"mono1", "prop"}
MaxWidths == -1..3

WrapIdle == [text |-> <<>>, maxWidth |-> 1, font |-> "mono1"]
NotReturned == [done |-> FALSE]

InitWrapVars ==
    /\ wrapIn \in [text : StringsUpTo(WrapAlphabet, MaxTextLen), maxWidth : MaxWidths,
                 font : WrapFonts]
    /\ wrapOut = NotReturned

IdleWrapVars ==
    /\ wrapIn = WrapIdle
    /\ wrapOut = NotReturned

CallWrap ==
    /\ ~wrapOut.done
    /\ wrapOut' = [done |-> TRUE,
                   lines |-> reduceLinesWithNumbers(wrapIn.font, wrapIn.maxWidth,
                                                    wrapIn.text)]
    /\ UNCHANGED <<wrapIn, searchVars, sbVars, workerVars, hookVars>>

-----------------------------------------------------------------------------
(* The contextual search.  A query is a string, undefined or null. *)

Str(s) == [t |-> "str", s |-> s]
Undefined == [t |-> "undefined", s |-> <<>>]
Null == [t |-> "null", s |-> <<>>]

\* The default parameter (searchFor = ''): only undefined takes the default.
DefaultParam(q) == IF q.t = "undefined" THEN Str(<<>>) ELSE q
\* !searchFor
Falsy(q) == q.t # "str" \/ q.s = <<>>

\* list[i].text.toLowerCase().indexOf(s) >= 0
LineMatchesCaseSensitive(line, s) == Contains(line.text, s)
LineMatches(line, s) == Contains(toLowerCase(line.text), s)

\* Set.prototype.add: a Set keeps insertion order and ignores a repeat.
SetAdd(seq, x) ==
    IF \E k \in 1..Len(seq) : seq[k] = x THEN seq ELSE Append(seq, x)

\* One iteration of the scan at (1-based) index i.
ScanStepNoAfter(list, s, i, acc) ==
    IF LineMatches(list[i], s)
    THEN LET before == IF i > 1 THEN SetAdd(acc.indices, i - 1) ELSE acc.indices
         IN  [total |-> acc.total + 1, indices |-> SetAdd(before, i)]
    ELSE acc
ScanStep(list, s, i, acc) ==
    IF LineMatches(list[i], s)
    THEN LET before == IF i > 1 THEN SetAdd(acc.indices, i - 1) ELSE acc.indices
             self == SetAdd(before, i)
             after == IF i < Len(list) THEN SetAdd(self, i + 1) ELSE self
         IN  [total |-> acc.total + 1, indices |-> after]
    ELSE acc

RECURSIVE ScanFrom(_, _, _, _)
ScanFrom(list, s, i, acc) ==
    IF i > Len(list) THEN acc
    ELSE ScanFrom(list, s, i + 1, ScanStep(list, s, i, acc))

\* Array.from(indicesSet).sort((a, b) => a - b)
RECURSIVE SortAsc(_)
SortAsc(seq) ==
    IF seq = <<>> THEN <<>>
    ELSE LET m == CHOOSE k \in 1..Len(seq) :
                      \A j \in 1..Len(seq) : seq[k] < seq[j] \/ (seq[k] = seq[j] /\ k <= j)
             rest == [j \in 1..(Len(seq) - 1) |-> IF j < m THEN seq[j] ELSE seq[j + 1]]
         IN  <<seq[m]>> \o SortAsc(rest)

\* What the searcher returns: the list itself, or a SearchResult.
TheList(list) == [kind |-> "list", list |-> list]
SearchResult(text, results, total) ==
    [kind |-> "result", searchText |-> text, results |-> results, total |-> total]

quickStringSearchAlwaysWraps(list, searchFor) ==
    LET q == DefaultParam(searchFor)
        scan == ScanFrom(list, toLowerCase(q.s), 1, [total |-> 0, indices |-> <<>>])
        sortedIndices == SortAsc(scan.indices)
    IN  SearchResult(q, [k \in 1..Len(sortedIndices) |-> list[sortedIndices[k]]],
                     scan.total)
quickStringSearchWithNumbers(list, searchFor) ==
    LET q == DefaultParam(searchFor)
    IN  IF Falsy(q) THEN TheList(list)
        ELSE LET scan == ScanFrom(list, toLowerCase(q.s), 1,
                                  [total |-> 0, indices |-> <<>>])
                 sortedIndices == SortAsc(scan.indices)
             IN  SearchResult(q,
                              [k \in 1..Len(sortedIndices) |-> list[sortedIndices[k]]],
                              scan.total)

-----------------------------------------------------------------------------
(* One call of a searcher on an arbitrary list and query. *)

LineTexts == {<<>>, <<"a">>, <<"A">>, <<"b">>, <<"a", "b">>, <<"b", "A">>, <<"a", "a">>}
Queries == {Str(<<>>), Undefined, Null, Str(<<"a">>), Str(<<"A">>), Str(<<"b">>),
            Str(<<"a", "b">>), Str(<<"A", "b">>), Str(<<"b", "a">>)}

RECURSIVE TextListsUpTo(_)
TextListsUpTo(n) ==
    IF n = 0 THEN {<<>>}
    ELSE LET shorter == TextListsUpTo(n - 1)
         IN  shorter \cup {Append(l, t) : l \in shorter, t \in LineTexts}

InitSearchVars ==
    /\ searchIn \in [list : {NumberLines(l) : l \in TextListsUpTo(MaxLines)},
                     query : Queries]
    /\ searchOut = NotReturned

IdleSearchVars ==
    /\ searchIn = [list |-> <<>>, query |-> Str(<<>>)]
    /\ searchOut = NotReturned

CallSearch ==
    /\ ~searchOut.done
    /\ searchOut' = [done |-> TRUE,
                     result |-> quickStringSearchWithNumbers(searchIn.list,
                                                             searchIn.query)]
    /\ UNCHANGED <<searchIn, wrapVars, sbVars, workerVars, hookVars>>

-----------------------------------------------------------------------------
(* The scrollbar. *)

Min(a, b) == IF a < b THEN a ELSE b
Max(a, b) == IF a > b THEN a ELSE b

\* clamp(min, max)(num) = Math.max(min, Math.min(max, num))
clamp(min, max, num) == Max(min, Min(max, num))

\* The thumb's y is a quotient: a fraction n/d in lowest terms with d > 0, or
\* what a division by zero leaves (NaN, Infinity, -Infinity).
RECURSIVE GCD(_, _)
GCD(a, b) == IF b = 0 THEN a ELSE GCD(b, a % b)
Abs(a) == IF a < 0 THEN -a ELSE a
Num(n) == [k |-> "num", n |-> n, d |-> 1]
NaN == [k |-> "nan", n |-> 0, d |-> 1]
Infinity == [k |-> "inf", n |-> 0, d |-> 1]
MinusInfinity == [k |-> "-inf", n |-> 0, d |-> 1]
Sign(a) == IF a < 0 THEN -1 ELSE IF a > 0 THEN 1 ELSE 0
\* a / b
Divide(a, b) ==
    IF b = 0
    THEN (IF a = 0 THEN NaN ELSE IF a > 0 THEN Infinity ELSE MinusInfinity)
    ELSE LET g == GCD(Abs(a), Abs(b))
         IN  [k |-> "num", n |-> (Sign(b) * a) \div g, d |-> Abs(b) \div g]
\* m * q for an integer m
Times(m, q) ==
    CASE q.k = "num" -> Divide(m * q.n, q.d)
      [] q.k = "nan" -> NaN
      [] OTHER -> IF m = 0 THEN NaN
                  ELSE IF (m > 0) = (q.k = "inf") THEN Infinity ELSE MinusInfinity
\* p >= q and p <= q + h for integers p, h (false against NaN)
AtLeast(p, q) ==
    CASE q.k = "num" -> p * q.d >= q.n
      [] q.k = "-inf" -> TRUE
      [] OTHER -> FALSE
AtMostPlus(p, q, h) ==
    CASE q.k = "num" -> p * q.d <= q.n + h * q.d
      [] q.k = "inf" -> TRUE
      [] OTHER -> FALSE

\* updateClampScroll: minScroll = Math.min(-textHeight + canvasHeight - 100, 0)
updateClampScroll(b) ==
    [b EXCEPT !.minScroll = Min(-b.textHeight + b.canvasHeight - 100, 0)]

\* setupScrollBar({width, height, canvasWidth, canvasHeight, scrollOffset})
setupScrollBar(w, h, cw, ch, offset) ==
    updateClampScroll(
        [made |-> TRUE, x |-> 0, y |-> Num(0), width |-> w, height |-> h,
         dragging |-> FALSE, textHeight |-> 0, canvasWidth |-> cw,
         canvasHeight |-> ch, scrollOffset |-> offset,
         minScroll |-> 0, canvasWidthArg |-> cw])

\* let scrollBar; before any setupScrollBar
NoScrollBar ==
    [made |-> FALSE, x |-> 0, y |-> Num(0), width |-> 0, height |-> 0,
     dragging |-> FALSE, textHeight |-> 0, canvasWidth |-> 0, canvasHeight |-> 0,
     scrollOffset |-> 0, minScroll |-> 0, canvasWidthArg |-> 0]

pointOnScrollbar(b, x, y) ==
    /\ x >= b.x /\ x <= b.x + b.width
    /\ AtLeast(y, b.y) /\ AtMostPlus(y, b.y, b.height)

drawOverCanvasHeight(b) ==
    LET scrollPerc == Divide(b.scrollOffset, b.minScroll)
    IN  [b EXCEPT !.y = Times(b.canvasHeight, scrollPerc),
                  !.x = b.canvasWidthArg - b.width]
draw(b) ==
    LET scrollPerc == Divide(b.scrollOffset, b.minScroll)
    IN  [b EXCEPT !.y = Times(b.canvasHeight - b.height, scrollPerc),
                  !.x = b.canvasWidthArg - b.width]

setTextHeight(b, txtHeight) == updateClampScroll([b EXCEPT !.textHeight = txtHeight])
setCanvasHeight(b, h) == updateClampScroll([b EXCEPT !.canvasHeight = h])
setCanvasWidth(b, w) == updateClampScroll([b EXCEPT !.canvasWidth = w])
resizeCanvas(b, w, h) == [b EXCEPT !.canvasWidth = w, !.canvasHeight = h]

\* setScrollOffset, up to its call of updateCanvas
setScrollOffset(b, offset) == [b EXCEPT !.scrollOffset = offset]
\* applyScrollDelta, up to setScrollOffset's call of updateCanvas
applyScrollDeltaUnclamped(b, delta) == setScrollOffset(b, b.scrollOffset - delta)
applyScrollDelta(b, delta) ==
    setScrollOffset(b, clamp(b.minScroll, 0, b.scrollOffset - delta))

handleMouseDown(b, e) ==
    IF pointOnScrollbar(b, e.x, e.y) THEN [b EXCEPT !.dragging = TRUE] ELSE b
handleMouseUp(b) == IF b.dragging THEN [b EXCEPT !.dragging = FALSE] ELSE b
\* whether handleMouseMove scrolls: sb.dragging && e.buttons
MoveScrollsWithoutButton(b, e) == b.dragging
MoveScrolls(b, e) == b.dragging /\ e.buttons # 0

-----------------------------------------------------------------------------
(* A scrollbar on its own: any caller, any order of calls. *)

ThumbWidth == 10
\* the default thumb, and one higher than the lower canvas
ThumbHeights == {100, 150}
CanvasWidths == {20, 30}
CanvasHeights == {100, 200}
TextHeights == {0, 300}
Deltas == {-1000, -100, 100, 1000}
Offsets == {-1000, -100, 0, 100}
PointXs == {5, 15, 25}
PointYs == {0, 60, 150}
MovementYs == {-100, 100}
Buttons == {0, 1}

Op(name, arg) == [op |-> name, arg |-> arg]
NoOp == Op("none", <<>>)

InitSBVars ==
    /\ \E h \in ThumbHeights :
          sb = setupScrollBar(ThumbWidth, h, 20, 200, 0)
    /\ renders = 0
    /\ lastOp = NoOp

IdleSBVars ==
    /\ sb = NoScrollBar
    /\ renders = 0
    /\ lastOp = NoOp

SBFrame == UNCHANGED <<wrapVars, searchVars, workerVars, hookVars>>

SBDraw ==
    /\ sb' = draw(sb)
    /\ renders' = 0
    /\ lastOp' = Op("draw", <<>>)
    /\ SBFrame

SBSetTextHeight ==
    \E h \in TextHeights :
        /\ sb' = setTextHeight(sb, h)
        /\ renders' = 0
        /\ lastOp' = Op("setTextHeight", <<h>>)
        /\ SBFrame

SBSetCanvasHeight ==
    \E h \in CanvasHeights :
        /\ sb' = setCanvasHeight(sb, h)
        /\ renders' = 0
        /\ lastOp' = Op("setCanvasHeight", <<h>>)
        /\ SBFrame

SBSetCanvasWidth ==
    \E w \in CanvasWidths :
        /\ sb' = setCanvasWidth(sb, w)
        /\ renders' = 0
        /\ lastOp' = Op("setCanvasWidth", <<w>>)
        /\ SBFrame

SBResizeCanvas ==
    \E w \in CanvasWidths, h \in CanvasHeights :
        /\ sb' = resizeCanvas(sb, w, h)
        /\ renders' = 0
        /\ lastOp' = Op("resizeCanvas", <<w, h>>)
        /\ SBFrame

SBApplyScrollDelta ==
    \E delta \in Deltas :
        /\ sb' = applyScrollDelta(sb, delta)
        /\ renders' = 1
        /\ lastOp' = Op("applyScrollDelta", <<delta>>)
        /\ SBFrame

SBSetScrollOffset ==
    \E offset \in Offsets :
        /\ sb' = setScrollOffset(sb, offset)
        /\ renders' = 1
        /\ lastOp' = Op("setScrollOffset", <<offset>>)
        /\ SBFrame

SBMouseDown ==
    \E x \in PointXs, y \in PointYs :
        /\ sb' = handleMouseDown(sb, [x |-> x, y |-> y])
        /\ renders' = 0
        /\ lastOp' = Op("handleMouseDown", <<x, y>>)
        /\ SBFrame

SBMouseUp ==
    /\ sb' = handleMouseUp(sb)
    /\ renders' = 0
    /\ lastOp' = Op("handleMouseUp", <<>>)
    /\ SBFrame

SBMouseMove ==
    \E m \in MovementYs, bt \in Buttons, x \in PointXs, y \in PointYs :
        LET e == [movementY |-> m, buttons |-> bt, x |-> x, y |-> y]
        IN  /\ sb' = IF MoveScrolls(sb, e) THEN applyScrollDelta(sb, m) ELSE sb
            /\ renders' = IF MoveScrolls(sb, e) THEN 1 ELSE 0
            /\ lastOp' = Op("handleMouseMove", <<m, bt, x, y>>)
            /\ SBFrame

-----------------------------------------------------------------------------
(* The worker. *)

LINE_NUMBER_WIDTH == 60
LINE_NUMBER_MARGIN == 10
\* width - LINE_NUMBER_WIDTH - LINE_NUMBER_MARGIN - 5
TextMaxWidth(w) == w - LINE_NUMBER_WIDTH - LINE_NUMBER_MARGIN - 5

\* The scrollbar's defaults: width = 10, height = 100.
DefaultThumbWidth == 10
DefaultThumbHeight == 100

NoContext == [made |-> FALSE, font |-> "mono1"]
NoSearcher == [made |-> FALSE, list |-> <<>>, cache |-> <<>>]
NoContent == [set |-> FALSE, text |-> <<>>]

\* memo(quickStringSearchWithNumbers(list)): R.memoizeWith(R.identity) keeps
\* one entry per key; the cache is a sequence of [key, value] entries.
memo(list) == [made |-> TRUE, list |-> list, cache |-> <<>>]
Cached(sr, q) == \E k \in 1..Len(sr.cache) : sr.cache[k].key = q
CachedValue(sr, q) ==
    sr.cache[CHOOSE k \in 1..Len(sr.cache) : sr.cache[k].key = q].value
\* One call searcher(q): the value returned and the searcher afterwards.
CallSearcher(sr, q) ==
    IF Cached(sr, q) THEN [value |-> CachedValue(sr, q), searcher |-> sr]
    ELSE LET v == quickStringSearchWithNumbers(sr.list, q)
         IN  [value |-> v,
              searcher |-> [sr EXCEPT !.cache = Append(@, [key |-> q, value |-> v])]]

\* size * lineHeight * lines.length, lineHeight being held in tenths
TextHeightOf(sz, lh, n) == (sz * lh * n) \div 10

\* The worker's state as one record, so that the helpers compose as in the code.
Worker ==
    [sb |-> sb, ctx |-> ctx, width |-> width, height |-> height,
     searchText |-> searchText, searcher |-> searcher, lineHeight |-> lineHeight,
     size |-> size, rawContent |-> rawContent, lines |-> lines, linesRaw |-> linesRaw,
     surface |-> surface, drawn |-> drawn, renders |-> 0]

\* Math.floor(a / b) and Math.ceil(a / b) for integers a and b > 0
FloorDiv(a, b) == a \div b
CeilDiv(a, b) == -((-a) \div b)

\* The loop of updateCanvas over idx = from .. lastIdx: the fillText calls it
\* makes.  h10 is lineHeight * size and every y is held in tenths; the loop
\* ends at the first index past the lines and after a row below the canvas.
RECURSIVE DrawLoop(_, _, _, _, _, _)
DrawLoop(ls, h10, offset, canvasHeight, idx, lastIdx) ==
    IF idx > lastIdx \/ idx + 1 > Len(ls) \/ idx < 0 THEN <<>>
    ELSE LET yPos == idx * h10 + 10 * offset
             row == [idx |-> idx, y |-> yPos, text |-> ls[idx + 1].text,
                     lineNum |-> ls[idx + 1].lineNum]
             here == IF yPos >= -h10 /\ yPos < 10 * canvasHeight
                     THEN <<row>> ELSE <<>>
         IN  IF yPos > 10 * canvasHeight THEN here
             ELSE here \o DrawLoop(ls, h10, offset, canvasHeight, idx + 1, lastIdx)

\* The rows one updateCanvas draws.
DrawnRowsFromTop(w) ==
    LET h10 == w.lineHeight * w.size
    IN  DrawLoop(w.lines, h10, w.sb.scrollOffset, w.height, 0,
                 CeilDiv(10 * w.height, h10))
DrawnRows(w) ==
    LET h10 == w.lineHeight * w.size
        offset == w.sb.scrollOffset
        firstIdx == FloorDiv(-(10 * offset), h10)
        lastIdx == CeilDiv(10 * w.height, h10) + firstIdx
    IN  DrawLoop(w.lines, h10, offset, w.height, firstIdx, lastIdx)

\* updateCanvas: without a context nothing; else the rows are drawn over a
\* cleared canvas and the scrollbar draws its thumb.
updateCanvas(w) ==
    IF ~w.ctx.made THEN w
    ELSE [w EXCEPT !.surface = "rows", !.drawn = DrawnRows(w),
                   !.sb = draw(w.sb), !.renders = @ + 1]

\* scrollBar.setScrollOffset / applyScrollDelta with the worker's callback
WorkerSetScrollOffset(w, offset) ==
    updateCanvas([w EXCEPT !.sb = setScrollOffset(w.sb, offset)])
WorkerApplyScrollDeltaUnclamped(w, delta) ==
    updateCanvas([w EXCEPT !.sb = applyScrollDeltaUnclamped(w.sb, delta)])
WorkerApplyScrollDelta(w, delta) ==
    updateCanvas([w EXCEPT !.sb = applyScrollDelta(w.sb, delta)])

\* updateSearch(txt), with SEARCH_PARAGRAPHS = false
updateSearchKeepsOffset(w, txt) ==
    LET filtered == ~Falsy(txt) /\ w.searcher.made
        call == CallSearcher(w.searcher, txt)
        w1 == [w EXCEPT !.searchText = txt,
                        !.searcher = IF filtered THEN call.searcher ELSE @,
                        !.lines = IF filtered THEN call.value.results ELSE w.linesRaw]
    IN  IF ~w1.sb.made THEN w1
        ELSE [w1 EXCEPT !.sb = setTextHeight(w1.sb,
                                  TextHeightOf(w1.size, w1.lineHeight, Len(w1.lines)))]
updateSearch(w, txt) ==
    LET filtered == ~Falsy(txt) /\ w.searcher.made
        call == CallSearcher(w.searcher, txt)
        w1 == [w EXCEPT !.searchText = txt,
                        !.searcher = IF filtered THEN call.searcher ELSE @,
                        !.lines = IF filtered THEN call.value.results ELSE w.linesRaw]
    IN  IF ~w1.sb.made THEN w1
        ELSE WorkerSetScrollOffset(
                 [w1 EXCEPT !.sb = setTextHeight(w1.sb,
                                       TextHeightOf(w1.size, w1.lineHeight,
                                                    Len(w1.lines)))],
                 0)

\* updateFontProps(changed)
updateFontProps(w, changed) ==
    LET w1 == [w EXCEPT !.lineHeight = changed.lineHeight, !.size = changed.size]
    IN  IF ~w1.ctx.made THEN w1 ELSE [w1 EXCEPT !.ctx.font = changed.font]

\* textCenter(message)
textCenter(w, message) ==
    IF ~w.ctx.made THEN w ELSE [w EXCEPT !.surface = message, !.drawn = <<>>]

\* rebuildContent, with SEARCH_PARAGRAPHS = false
rebuildContentKeepsCache(w) ==
    LET table == reduceLinesWithNumbers(w.ctx.font, TextMaxWidth(w.width),
                                        w.rawContent.text)
    IN  [w EXCEPT !.linesRaw = table,
                  !.searcher = [memo(table) EXCEPT !.cache = w.searcher.cache]]
rebuildContent(w) ==
    LET table == reduceLinesWithNumbers(w.ctx.font, TextMaxWidth(w.width),
                                        w.rawContent.text)
    IN  [w EXCEPT !.linesRaw = table, !.searcher = memo(table)]

\* The messages and documents of the model.
Routes == {"r1", "r2"}
Content(route) ==
    IF route = "r1"
    THEN <<"a", SPACE, "A", SPACE, "a", LINE_BREAK, "b", LINE_BREAK, "b">>
    ELSE <<"b", SPACE, "b">>
FontConfigs ==
    {[font |-> "mono1", size |-> 10, lineHeight |-> 10],
     [font |-> "mono2", size |-> 20, lineHeight |-> 20]}
InitWidth == 78
InitHeight == 110
WorkerQueries == {Str(<<>>), Str(<<"a">>)}
ScrollDeltas == {-1000, 50, 1000}
\* a press on the thumb's column and one off it; a move with and without a button
MouseEvents ==
    {[x |-> 70, y |-> 10, movementY |-> 50, buttons |-> 1],
     [x |-> 5, y |-> 10, movementY |-> -50, buttons |-> 0]}

PendingCount ==
    LET RECURSIVE Sum(_)
        Sum(S) == IF S = {} THEN 0
                  ELSE LET r == CHOOSE r \in S : TRUE IN fetches[r] + Sum(S \ {r})
    IN  Sum(Routes) + frames

InitWorkerVars ==
    /\ sb = NoScrollBar
    /\ renders = 0
    /\ lastOp = NoOp
    /\ ctx = NoContext
    /\ width = 0
    /\ height = 0
    /\ searchText = Str(<<>>)
    /\ searcher = NoSearcher
    /\ lineHeight = 11
    /\ size = 15
    /\ rawContent = NoContent
    /\ lines = <<>>
    /\ linesRaw = <<>>
    /\ fetches = [r \in Routes |-> 0]
    /\ frames = 0
    /\ threw = FALSE
    /\ surface = "none"
    /\ drawn = <<>>
    /\ currentRoute = "none"

IdleWorkerVars ==
    /\ ctx = NoContext
    /\ width = 0
    /\ height = 0
    /\ searchText = Str(<<>>)
    /\ searcher = NoSearcher
    /\ lineHeight = 11
    /\ size = 15
    /\ rawContent = NoContent
    /\ lines = <<>>
    /\ linesRaw = <<>>
    /\ fetches = [r \in Routes |-> 0]
    /\ frames = 0
    /\ threw = FALSE
    /\ surface = "none"
    /\ drawn = <<>>
    /\ currentRoute = "none"

\* The worker's variables after a handler that left the worker as w.
Becomes(w) ==
    /\ sb' = w.sb
    /\ renders' = w.renders
    /\ ctx' = w.ctx
    /\ width' = w.width
    /\ height' = w.height
    /\ searchText' = w.searchText
    /\ searcher' = w.searcher
    /\ lineHeight' = w.lineHeight
    /\ size' = w.size
    /\ rawContent' = w.rawContent
    /\ lines' = w.lines
    /\ linesRaw' = w.linesRaw
    /\ surface' = w.surface
    /\ drawn' = w.drawn

WorkerFrame == UNCHANGED <<wrapVars, searchVars, hookVars>>

\* case MESSAGES.INIT
OnInit ==
    \E route \in Routes, cfg \in FontConfigs :
        /\ PendingCount < MaxPending
        /\ LET w1 == [Worker EXCEPT
                          !.width = InitWidth, !.height = InitHeight,
                          !.ctx = [made |-> TRUE, font |-> "mono1"],
                          !.sb = setupScrollBar(DefaultThumbWidth, DefaultThumbHeight,
                                                InitWidth, InitHeight, 0)]
               w2 == updateFontProps(w1, cfg)
           IN  Becomes(textCenter(w2, "loading"))
        /\ fetches' = [fetches EXCEPT ![route] = @ + 1]
        /\ currentRoute' = route
        /\ lastOp' = Op("INIT", <<route>>)
        /\ threw' = FALSE
        /\ UNCHANGED frames
        /\ WorkerFrame

\* fetch(route).then(res => res.text()).then(content => ...)
FetchSucceeds ==
    \E route \in Routes :
        /\ fetches[route] > 0
        /\ fetches' = [fetches EXCEPT ![route] = @ - 1]
        /\ Becomes([textCenter(Worker, "parsing") EXCEPT
                        !.rawContent = [set |-> TRUE, text |-> Content(route)]])
        /\ frames' = frames + 1
        /\ lastOp' = Op("fetched", <<route>>)
        /\ UNCHANGED <<threw, currentRoute>>
        /\ WorkerFrame

\* .catch(err => console.log(err))
FetchFails ==
    \E route \in Routes :
        /\ fetches[route] > 0
        /\ fetches' = [fetches EXCEPT ![route] = @ - 1]
        /\ lastOp' = Op("fetch failed", <<route>>)
        /\ UNCHANGED <<sb, renders, ctx, width, height, searchText, searcher, lineHeight,
                       size, rawContent, lines, linesRaw, frames, threw, surface, drawn,
                       currentRoute>>
        /\ WorkerFrame

\* requestAnimationFrame(() => { rebuildContent(); updateSearch('');
\*                               scrollBar.setScrollOffset(0); })
AnimationFrame ==
    /\ frames > 0
    /\ frames' = frames - 1
    /\ Becomes(WorkerSetScrollOffset(updateSearch(rebuildContent(Worker), Str(<<>>)), 0))
    /\ lastOp' = Op("loaded", <<>>)
    /\ UNCHANGED <<fetches, threw, currentRoute>>
    /\ WorkerFrame

\* A handler that dereferences the undefined scrollBar throws before it
\* changes anything.
Throws(name) ==
    /\ threw' = TRUE
    /\ lastOp' = Op(name, <<>>)
    /\ UNCHANGED <<sb, renders, ctx, width, height, searchText, searcher, lineHeight,
                   size, rawContent, lines, linesRaw, fetches, frames, surface, drawn,
                   currentRoute>>
    /\ WorkerFrame

Handled(name, w) ==
    /\ Becomes(w)
    /\ threw' = FALSE
    /\ lastOp' = Op(name, <<>>)
    /\ UNCHANGED <<fetches, frames, currentRoute>>
    /\ WorkerFrame

\* case MESSAGES.KILL
OnKill == Handled("KILL", Worker)

\* case MESSAGES.SCROLL
OnScroll ==
    \E scrollDelta \in ScrollDeltas :
        IF ~sb.made THEN Throws("SCROLL")
        ELSE Handled("SCROLL", WorkerApplyScrollDelta(Worker, scrollDelta))

\* case MESSAGES.UPDATE
OnUpdate ==
    \E cfg \in FontConfigs :
        Handled("UPDATE", updateCanvas(updateFontProps(Worker, cfg)))

\* case MESSAGES.SEARCH
OnSearch ==
    \E txt \in WorkerQueries :
        Handled("SEARCH", updateCanvas(updateSearch(Worker, txt)))

\* case MESSAGES.MOUSE_DOWN
OnMouseDown ==
    \E e \in MouseEvents :
        IF ~sb.made THEN Throws("MOUSE_DOWN")
        ELSE Handled("MOUSE_DOWN", [Worker EXCEPT !.sb = handleMouseDown(sb, e)])

\* case MESSAGES.MOUSE_UP
OnMouseUp ==
    IF ~sb.made THEN Throws("MOUSE_UP")
    ELSE Handled("MOUSE_UP", [Worker EXCEPT !.sb = handleMouseUp(sb)])

\* case MESSAGES.MOUSE_MOVE
OnMouseMove ==
    \E e \in MouseEvents :
        Handled("MOUSE_MOVE",
                IF sb.made /\ MoveScrolls(sb, e)
                THEN WorkerApplyScrollDelta(Worker, e.movementY)
                ELSE Worker)

\* default: console.log('?', evt)
OnUnknownThrows == Throws("?")
OnUnknown == Handled("?", Worker)

-----------------------------------------------------------------------------
(* The auto-scroll hook: one instance of useReaderAutoScroll, the timers it
   sets and the time that passes, in units of one interval step. *)

\* The props of a render: canvasWorker (set or not), enabled, time, amount.
HookProps == [worker : BOOLEAN, enabled : BOOLEAN, time : {1, 2}, amount : {2, 5}]
DefaultProps == [worker |-> FALSE, enabled |-> FALSE, time |-> 1, amount |-> 2]

\* Before the first render: scrollInterval.current is null (0), no timer set.
NoHook ==
    [phase |-> "new", props |-> DefaultProps, current |-> 0, nextId |-> 1,
     timers |-> {}]

\* setInterval(callback, time): a new timer, whose callback posts amount
setInterval(h, time, amount) ==
    [h EXCEPT !.timers = @ \cup {[id |-> h.nextId, time |-> time,
                                  amount |-> amount, elapsed |-> 0]},
              !.current = h.nextId,
              !.nextId = @ + 1]
\* clearInterval(id) and clearTimeout(id): the timer of that id, if any, is gone
clearInterval(h, id) == [h EXCEPT !.timers = {t \in @ : t.id # id}]

\* The effect's clean-up: if (scrollInterval.current) clearInterval(...)
CleanupKeepsTimer(h) == h
Cleanup(h) == IF h.current # 0 THEN clearInterval(h, h.current) ELSE h

\* The effect, run with the props of the render
Effect(h) ==
    IF h.props.worker /\ h.props.enabled
    THEN setInterval(IF h.current # 0 THEN clearInterval(h, h.current) ELSE h,
                     h.props.time, h.props.amount)
    ELSE h

\* The timers whose interval ends with the next unit of time, by id
Due(h) == {t \in h.timers : t.elapsed + 1 = t.time}
RECURSIVE PostsFrom(_, _)
PostsFrom(due, id) ==
    IF due = {} THEN <<>>
    ELSE IF \E t \in due : t.id = id
         THEN LET t == CHOOSE t \in due : t.id = id
              IN  <<[type |-> "SCROLL", scrollDelta |-> t.amount]>>
                      \o PostsFrom(due \ {t}, id + 1)
         ELSE PostsFrom(due, id + 1)

InitHookVars ==
    /\ hook = NoHook
    /\ posted = <<>>
    /\ sb = NoScrollBar
    /\ renders = 0
    /\ lastOp = NoOp

IdleHookVars ==
    /\ hook = NoHook
    /\ posted = <<>>

HookFrame == UNCHANGED <<wrapVars, searchVars, workerVars, sb, renders>>

\* The first render and its effect
Mount ==
    \E props \in HookProps :
        /\ hook.phase = "new"
        /\ hook' = Effect([hook EXCEPT !.phase = "mounted", !.props = props])
        /\ posted' = <<>>
        /\ lastOp' = Op("mount", <<>>)
        /\ HookFrame

\* A render with a changed dependency: the clean-up, then the effect
Rerender ==
    \E props \in HookProps :
        /\ hook.phase = "mounted"
        /\ props # hook.props
        /\ hook.nextId <= MaxTimers
        /\ hook' = Effect([Cleanup(hook) EXCEPT !.props = props])
        /\ posted' = <<>>
        /\ lastOp' = Op("rerender", <<>>)
        /\ HookFrame

\* The unmount: the clean-up
Unmount ==
    /\ hook.phase = "mounted"
    /\ hook' = [Cleanup(hook) EXCEPT !.phase = "unmounted"]
    /\ posted' = <<>>
    /\ lastOp' = Op("unmount", <<>>)
    /\ HookFrame

\* One unit of time passes: the timers that are due call their callbacks
Tick ==
    /\ hook.phase # "new"
    /\ hook' = [hook EXCEPT !.timers =
                    {[t EXCEPT !.elapsed = (t.elapsed + 1) % t.time] : t \in @}]
    /\ posted' = PostsFrom(Due(hook), 1)
    /\ lastOp' = Op("tick", <<>>)
    /\ HookFrame

-----------------------------------------------------------------------------
(* The specifications. *)

InitWrap ==
    InitWrapVars /\ IdleSearchVars /\ IdleSBVars /\ IdleWorkerVars /\ IdleHookVars
NextWrap == CallWrap
SpecWrap == InitWrap /\ [][NextWrap]_vars

InitSearch ==
    InitSearchVars /\ IdleWrapVars /\ IdleSBVars /\ IdleWorkerVars /\ IdleHookVars
NextSearch == CallSearch
SpecSearch == InitSearch /\ [][NextSearch]_vars

InitSB ==
    InitSBVars /\ IdleWrapVars /\ IdleSearchVars /\ IdleWorkerVars /\ IdleHookVars
NextSB ==
    \/ SBDraw
    \/ SBSetTextHeight
    \/ SBSetCanvasHeight
    \/ SBSetCanvasWidth
    \/ SBResizeCanvas
    \/ SBApplyScrollDelta
    \/ SBSetScrollOffset
    \/ SBMouseDown
    \/ SBMouseUp
    \/ SBMouseMove
SpecSB == InitSB /\ [][NextSB]_vars

Init == InitWorkerVars /\ IdleWrapVars /\ IdleSearchVars /\ IdleHookVars
Next ==
    \/ OnInit
    \/ FetchSucceeds
    \/ FetchFails
    \/ AnimationFrame
    \/ OnKill
    \/ OnScroll
    \/ OnUpdate
    \/ OnSearch
    \/ OnMouseDown
    \/ OnMouseUp
    \/ OnMouseMove
    \/ OnUnknown
Spec == Init /\ [][Next]_vars

InitAuto ==
    InitHookVars /\ IdleWrapVars /\ IdleSearchVars /\ IdleSBVars /\ IdleWorkerVars
NextAuto ==
    \/ Mount
    \/ Rerender
    \/ Unmount
    \/ Tick
SpecAuto == InitAuto /\ [][NextAuto]_vars

-----------------------------------------------------------------------------
(* Properties of the line wrapper. *)

WrapReturned == wrapOut.done
WrapFlat == Flatten(WrapGroups(wrapIn.font, wrapIn.maxWidth, wrapIn.text))
WrapSource == SourceOfGroups(WrapGroups(wrapIn.font, wrapIn.maxWidth, wrapIn.text), 1)
LineWidth(k) == measureWordSet(wrapIn.font, <<wrapOut.lines[k].text>>)
IsSingleWord(txt) == \A i \in 1..Len(txt) : txt[i] # SPACE

C4_LineNumIsSourceLine ==
    (WrapReturned /\ wrapIn.maxWidth > 0) =>
        /\ \A k \in 1..Len(wrapOut.lines) : wrapOut.lines[k].lineNum = WrapSource[k]
        /\ \A k \in 1..Len(wrapOut.lines) :
              wrapOut.lines[k].lineNum <= Len(split(LINE_BREAK, wrapIn.text))

\* Runs of whitespace collapsed to single spaces.
RECURSIVE CollapseWhitespace(_)
CollapseWhitespace(s) ==
    IF s = <<>> THEN <<>>
    ELSE IF IsWhitespace(Head(s))
         THEN <<SPACE>> \o CollapseWhitespace(TrimLeft(s))
         ELSE <<Head(s)>> \o CollapseWhitespace(Tail(s))

RECURSIVE TextsNumbered(_, _)
TextsNumbered(ls, n) ==
    IF ls = <<>> THEN <<>>
    ELSE (IF Head(ls).lineNum = n THEN <<Head(ls).text>> ELSE <<>>)
         \o TextsNumbered(Tail(ls), n)

\* The words of a text: its maximal runs of characters that are not whitespace.
RECURSIVE WordsOf(_, _)
WordsOf(s, cur) ==
    IF s = <<>> THEN (IF cur = <<>> THEN <<>> ELSE <<cur>>)
    ELSE IF IsWhitespace(Head(s))
         THEN (IF cur = <<>> THEN <<>> ELSE <<cur>>) \o WordsOf(Tail(s), <<>>)
         ELSE WordsOf(Tail(s), Append(cur, Head(s)))

\* C5: the texts of the display lines numbered n, joined in order with single
\* spaces, are logical line n with its runs of whitespace collapsed.  Stated
\* for the widths the wrapper's contract allows (maxWidth > 0) and up to
\* whitespace at the ends and inside: the two texts hold the same words in the
\* same order.
C5_RejoinReproducesLine ==
    (WrapReturned /\ wrapIn.maxWidth > 0) =>
        LET ls == split(LINE_BREAK, wrapIn.text)
        IN  \A n \in 1..Len(ls) :
                WordsOf(join(SPACE, TextsNumbered(wrapOut.lines, n)), <<>>)
                    = WordsOf(CollapseWhitespace(ls[n]), <<>>)

\* C18: wrapping the empty string yields exactly one display line, with text
\* '' and lineNum 1, whatever the measure and whatever maxWidth (zero and
\* negative included).
C18_EmptyTextIsOneLine ==
    (WrapReturned /\ wrapIn.text = <<>>) =>
        wrapOut.lines = <<[text |-> <<>>, lineNum |-> 1]>>

\* Whether a buffer, or a logical line, holds a word at all ('' is none).
HasWord(ws) == \E j \in 1..Len(ws) : ws[j] # <<>>
AllWords(ws) == \A j \in 1..Len(ws) : ws[j] # <<>>
Overlong(w) == measureWordSet(wrapIn.font, <<w>>) > wrapIn.maxWidth

\* C30: a display line with no words comes only from a logical line with no
\* words; stated for logical lines of single-spaced words and maxWidth > 0:
\* none of their display lines is without a word (so a first word wider than
\* maxWidth is the first display line), and a line of k words each wider than
\* maxWidth gives k display lines.
C30_NoEmptyLineBeforeLongWord ==
    (WrapReturned /\ wrapIn.maxWidth > 0) =>
        LET groups == WrapGroups(wrapIn.font, wrapIn.maxWidth, wrapIn.text)
            lw == LogicalWords(wrapIn.text)
        IN  \A i \in 1..Len(lw) :
                AllWords(lw[i]) =>
                    /\ \A b \in 1..Len(groups[i]) : HasWord(groups[i][b])
                    /\ (\A j \in 1..Len(lw[i]) : Overlong(lw[i][j])) =>
                           Len(groups[i]) = Len(lw[i])

-----------------------------------------------------------------------------
(* Properties of the contextual search. *)

SearchReturned == searchOut.done
NonEmptyQuery == searchIn.query.t = "str" /\ searchIn.query.s # <<>>

\* The indices of the lines that contain the query, case-insensitively.
MatchingIndices ==
    {i \in 1..Len(searchIn.list) :
        Contains(toLowerCase(searchIn.list[i].text), toLowerCase(searchIn.query.s))}
\* Each match with the line before and the line after it, inside the list.
ContextIndices ==
    {j \in 1..Len(searchIn.list) : \E i \in MatchingIndices : j \in {i - 1, i, i + 1}}

\* C6: for a non-empty query total is the number of lines that contain it
\* case-insensitively, total <= results.length <= 3 * total, and a query
\* without a match gives total 0 and no results (a SearchResult, not the list).
C6_TotalCountsMatchingLines ==
    (SearchReturned /\ NonEmptyQuery) =>
        /\ searchOut.result.kind = "result"
        /\ searchOut.result.total = Cardinality(MatchingIndices)
        /\ searchOut.result.total <= Len(searchOut.result.results)
        /\ Len(searchOut.result.results) <= 3 * searchOut.result.total
        /\ (MatchingIndices = {} => searchOut.result.results = <<>>)

\* A line holding the query twice and in another case is counted once, next
\* to a second match whose context overlaps.
C6_Witness ==
    /\ SearchReturned /\ NonEmptyQuery
    /\ searchOut.result.total = 2
    /\ Len(searchOut.result.results) = 3
    /\ \E i \in MatchingIndices : searchIn.list[i].text = <<"a", "a">>
    /\ searchIn.query.s = <<"A">>

\* C7: for a non-empty query the results are the input lines, unchanged, at
\* the matches and their neighbours inside the list, each once, in strictly
\* ascending index order.
C7_ResultsAreContextWindows ==
    (SearchReturned /\ NonEmptyQuery) =>
        LET res == searchOut.result.results
        IN  /\ Len(res) = Cardinality(ContextIndices)
            /\ \A k \in 1..Len(res) :
                  /\ res[k].lineNum \in ContextIndices
                  /\ res[k] = searchIn.list[res[k].lineNum]
            /\ \A k \in 1..(Len(res) - 1) : res[k].lineNum < res[k + 1].lineNum

\* Matches on the first and on the last line of a list of at least three
\* lines, with a line between them that does not match.
C7_Witness ==
    /\ SearchReturned /\ NonEmptyQuery
    /\ Len(searchIn.list) >= 3
    /\ 1 \in MatchingIndices /\ Len(searchIn.list) \in MatchingIndices
    /\ 2 \notin MatchingIndices
    /\ Len(searchOut.result.results) = Cardinality(ContextIndices)

\* C8: called with '', undefined or null the searcher returns the input list
\* itself, not a SearchResult.
C8_EmptyQueryReturnsList ==
    (SearchReturned /\ ~NonEmptyQuery) => searchOut.result = TheList(searchIn.list)

C8_Witness ==
    /\ SearchReturned /\ searchIn.query = Null
    /\ Len(searchIn.list) >= 2
    /\ searchOut.result.kind = "list"

-----------------------------------------------------------------------------
(* Properties of the scrollbar. *)

\* The offset is within the bounds the scrollbar clamps to.
InScrollBounds(b) == b.minScroll <= b.scrollOffset /\ b.scrollOffset <= 0

\* C1: applyScrollDelta(delta) on an offset within [minScroll, 0] leaves it
\* within [minScroll, 0] (so does any sequence of such calls); a delta large
\* enough leaves it exactly at minScroll, a negative delta large enough
\* exactly at 0, and with minScroll = 0 it stays 0.
C1_ApplyScrollDeltaClamps ==
    [][(lastOp'.op = "applyScrollDelta" /\ InScrollBounds(sb)) =>
          LET delta == lastOp'.arg[1]
          IN  /\ InScrollBounds(sb')
              /\ sb'.minScroll = sb.minScroll
              /\ (delta >= sb.scrollOffset - sb.minScroll =>
                     sb'.scrollOffset = sb.minScroll)
              /\ (delta <= sb.scrollOffset => sb'.scrollOffset = 0)
              /\ (sb.minScroll = 0 => sb'.scrollOffset = 0)]_vars

\* A large positive delta has left the offset at a minScroll below 0.
C1_Witness ==
    /\ lastOp = Op("applyScrollDelta", <<1000>>)
    /\ sb.minScroll < 0
    /\ sb.scrollOffset = sb.minScroll

\* The bounds the scroll state is specified to keep:
\* [min(-textHeight + canvasHeight - thumbHeight, 0), 0].
InSpecifiedBounds(b) ==
    /\ Min(-b.textHeight + b.canvasHeight - b.height, 0) <= b.scrollOffset
    /\ b.scrollOffset <= 0

\* C2: in every reachable state scrollOffset lies within [minScroll, 0] with
\* minScroll = min(-textHeight + canvasHeight - thumbHeight, 0); stated for the
\* case the claim singles out: a setTextHeight on an offset within the bounds
\* leaves it within the new bounds.
C2_SetTextHeightReclamps ==
    [][(lastOp'.op = "setTextHeight" /\ InSpecifiedBounds(sb)) =>
          InSpecifiedBounds(sb')]_vars

\* The thumb's position implied by the scroll offset now (what draw computes
\* from it), and the thumb's box now.
ImpliedThumbY(b) == Times(b.canvasHeight - b.height, Divide(b.scrollOffset, b.minScroll))
InThumbBox(b, x, y) ==
    /\ x >= b.canvasWidth - b.width /\ x <= b.canvasWidth
    /\ AtLeast(y, ImpliedThumbY(b)) /\ AtMostPlus(y, ImpliedThumbY(b), b.height)

\* C14: dragging is false at first; it becomes true only by a press inside
\* the thumb's box [canvasWidth - width, canvasWidth] x [thumbY, thumbY +
\* height] for the thumbY of the scroll offset at the press; every release
\* makes it false; nothing else changes it.
C14_DraggingFollowsPressAndRelease ==
    /\ ~sb.dragging
    /\ [][/\ (~sb.dragging /\ sb'.dragging) =>
                /\ lastOp'.op = "handleMouseDown"
                /\ InThumbBox(sb, lastOp'.arg[1], lastOp'.arg[2])
          /\ (lastOp'.op = "handleMouseUp") => ~sb'.dragging
          /\ (sb.dragging /\ ~sb'.dragging) => lastOp'.op = "handleMouseUp"]_vars

\* C15: a pointer move with movementY = d acts exactly when dragging is true
\* and buttons is non-zero: then scrollOffset becomes clamp(minScroll, 0,
\* scrollOffset - d) wherever the pointer is, the callback is called once and
\* nothing else of the scrollbar changes; otherwise the scrollbar is unchanged
\* and the callback is not called.
C15_MoveScrollsOnlyWhileDragging ==
    [][(lastOp'.op = "handleMouseMove") =>
          LET d == lastOp'.arg[1]
              buttons == lastOp'.arg[2]
          IN  IF sb.dragging /\ buttons # 0
              THEN /\ sb' = [sb EXCEPT !.scrollOffset =
                                 clamp(sb.minScroll, 0, sb.scrollOffset - d)]
                   /\ renders' = 1
              ELSE /\ sb' = sb
                   /\ renders' = 0]_vars

\* A drag that has scrolled with the pointer left of the thumb's column.
C15_Witness ==
    /\ lastOp.op = "handleMouseMove"
    /\ sb.dragging /\ lastOp.arg[2] # 0 /\ renders = 1
    /\ lastOp.arg[3] < sb.canvasWidth - sb.width
    /\ sb.minScroll < sb.scrollOffset /\ sb.scrollOffset < 0

\* C16: setScrollOffset(offset) leaves scrollOffset equal to offset clamped
\* into [minScroll, 0] and calls the callback exactly once.
C16_SetScrollOffsetClamps ==
    [][(lastOp'.op = "setScrollOffset") =>
          /\ sb'.scrollOffset = clamp(sb.minScroll, 0, lastOp'.arg[1])
          /\ renders' = 1]_vars

PointerOps == {"handleMouseDown", "handleMouseMove", "handleMouseUp"}

\* C21: with minScroll = 0 a draw puts the thumb at y = 0, a finite number,
\* and no press, move or release takes scrollOffset away from 0.
C21_NothingToScroll ==
    [][/\ (lastOp'.op = "draw" /\ sb.minScroll = 0) => sb'.y = Num(0)
       /\ (lastOp'.op \in PointerOps /\ sb.minScroll = 0 /\ sb.scrollOffset = 0) =>
              sb'.scrollOffset = 0]_vars

\* C22: whatever the thumb height, after setTextHeight(h) the lower bound is
\* min(-h + canvasHeight - thumbHeight, 0): a scroll by a delta larger than
\* any offset leaves scrollOffset at exactly that value.
C22_LowerBoundUsesThumbHeight ==
    [][(lastOp.op = "setTextHeight" /\ lastOp'.op = "applyScrollDelta"
            /\ lastOp'.arg[1] = 1000 /\ InSpecifiedBounds(sb)) =>
          sb'.scrollOffset = Min(-sb.textHeight + sb.canvasHeight - sb.height, 0)]_vars

CanvasHeightOps == {"resizeCanvas", "setCanvasHeight"}

\* C23: resizeCanvas and setCanvasHeight recompute the bounds from the new
\* canvas height and re-clamp the offset, and the applyScrollDelta that
\* follows clamps into [min(-textHeight + h - thumbHeight, 0), 0]; stated for
\* the thumb height 100, the one updateClampScroll's literal stands for.
C23_ResizeRecomputesBounds ==
    [][(sb.height = 100) =>
          /\ (lastOp'.op \in CanvasHeightOps /\ InSpecifiedBounds(sb)) =>
                 InSpecifiedBounds(sb')
          /\ (lastOp.op \in CanvasHeightOps /\ lastOp'.op = "applyScrollDelta") =>
                 InSpecifiedBounds(sb')]_vars

\* q1 <= q2 for two finite quotients
Leq(q1, q2) == q1.k = "num" /\ q2.k = "num" /\ q1.n * q2.d <= q2.n * q1.d
\* The thumb y a draw gives at offset o, the rest of b as it is.
ThumbYAt(b, o) == draw([b EXCEPT !.scrollOffset = o]).y
\* Offsets further down than b's, within the bounds.
FurtherDown(b) ==
    {o \in {b.minScroll, b.scrollOffset - 1, (b.minScroll + b.scrollOffset) \div 2} :
        b.minScroll <= o /\ o <= b.scrollOffset}
DrawInBounds ==
    /\ lastOp'.op = "draw" /\ sb.minScroll < 0
    /\ sb.minScroll <= sb.scrollOffset /\ sb.scrollOffset <= 0
ThumbEquation ==
    /\ sb'.y.k = "num"
    /\ sb'.y.n * sb.minScroll = (sb.canvasHeight - sb.height) * sb.scrollOffset * sb'.y.d
    /\ (sb.scrollOffset = 0) => sb'.y = Num(0)
    /\ (sb.scrollOffset = sb.minScroll) => sb'.y = Num(sb.canvasHeight - sb.height)
ThumbWithinTrack ==
    /\ Leq(Num(0), sb'.y) /\ Leq(sb'.y, Num(sb.canvasHeight - sb.height))
    /\ \A o \in FurtherDown(sb) : Leq(sb'.y, ThumbYAt(sb, o))

\* C24 as stated: with minScroll < 0 and scrollOffset in [minScroll, 0], a draw
\* gives y with y * minScroll = (canvasHeight - thumbHeight) * scrollOffset,
\* so 0 <= y <= canvasHeight - thumbHeight, y = 0 at offset 0, y =
\* canvasHeight - thumbHeight at minScroll, and y does not decrease as the
\* content is scrolled further down.
C24_ThumbPosition ==
    [][DrawInBounds => (ThumbEquation /\ ThumbWithinTrack)]_vars

\* C24 as amended: the equation and the two end positions hold always; the
\* bounds 0 <= y <= canvasHeight - thumbHeight and the monotonicity hold when
\* the canvas is at least as high as the thumb.
C24_ThumbPositionOnTrack ==
    [][DrawInBounds =>
          /\ ThumbEquation
          /\ (sb.canvasHeight >= sb.height) => ThumbWithinTrack]_vars

\* A draw of a thumb part of the way down its track.
C24_Witness ==
    /\ lastOp.op = "draw" /\ sb.minScroll < 0
    /\ sb.minScroll < sb.scrollOffset /\ sb.scrollOffset < 0
    /\ sb.canvasHeight > sb.height
    /\ Leq(Num(1), sb.y) /\ Leq(sb.y, Num(sb.canvasHeight - sb.height - 1))

\* C25: whatever setCanvasWidth and resizeCanvas calls came before, a draw
\* puts the thumb at x = canvasWidth - thumbWidth for the canvas width as it
\* is now, and a press right after the draw is tested against that x.
C25_ThumbPinnedToTrailingEdge ==
    [][/\ (lastOp'.op = "draw") => sb'.x = sb.canvasWidth - sb.width
       /\ (lastOp.op = "draw" /\ lastOp'.op = "handleMouseDown"
               /\ ~sb.dragging /\ sb'.dragging) =>
              /\ lastOp'.arg[1] >= sb.canvasWidth - sb.width
              /\ lastOp'.arg[1] <= sb.canvasWidth]_vars

-----------------------------------------------------------------------------
(* Properties of the worker. *)

\* A document is loaded once rebuildContent has built the Line Table.
Loaded == searcher.made

\* C9: after a SEARCH on a loaded document the lines on display are the Line
\* Table for an empty query and else the results of the search for it over the
\* Line Table, textHeight is len(lines) * size * lineHeight and the scroll
\* offset is 0.
C9_SearchSetsActiveLines ==
    (lastOp.op = "SEARCH" /\ Loaded) =>
        /\ lines = IF searchText.s = <<>> THEN linesRaw
                   ELSE quickStringSearchWithNumbers(linesRaw, searchText).results
        /\ sb.textHeight = TextHeightOf(size, lineHeight, Len(lines))
        /\ sb.scrollOffset = 0

\* A search that keeps some lines of the Line Table and drops others, on a
\* document taller than the canvas.
C9_Witness ==
    /\ lastOp.op = "SEARCH" /\ Loaded
    /\ searchText.s # <<>>
    /\ 0 < Len(lines) /\ Len(lines) < Len(linesRaw)
    /\ sb.minScroll < 0

\* C10: after an UPDATE on a loaded document (nothing of a load outstanding)
\* the Line Table is the wrap of the text under the font now set, the searcher
\* searches that table, and textHeight is len(lines) * size * lineHeight for
\* the size and lineHeight now set.
C10_UpdateRebuilds ==
    (lastOp.op = "UPDATE" /\ Loaded /\ PendingCount = 0) =>
        /\ linesRaw = reduceLinesWithNumbers(ctx.font, TextMaxWidth(width),
                                             rawContent.text)
        /\ searcher.list = linesRaw
        /\ sb.textHeight = TextHeightOf(size, lineHeight, Len(lines))

\* The letters of a text, and of the lines of a table, in order: what a
\* table keeps of the text it was wrapped from, whatever the font.
Letters(text) == SelectSeq(text, LAMBDA c : ~IsWhitespace(c) /\ c # LINE_BREAK)
TableLetters(table) == Letters(Flatten([k \in 1..Len(table) |-> table[k].text]))
DerivedFrom(route) ==
    /\ TableLetters(linesRaw) = Letters(Content(route))
    /\ searcher.list = linesRaw

\* C11: when the Line Table and the searcher derive from the newest INIT's
\* document, the completion of a load that leaves nothing outstanding
\* (so a load started by an earlier INIT) does not replace them: they still
\* derive from the newest INIT's document.
C11_StaleFetchDiscarded ==
    [][(lastOp'.op = "loaded" /\ PendingCount' = 0 /\ Loaded
            /\ DerivedFrom(currentRoute)) =>
          (DerivedFrom(currentRoute))']_vars

\* The types of the messages the worker is sent ("?" is any other type).
MessageTypes ==
    {"INIT", "KILL", "SCROLL", "UPDATE", "SEARCH", "MOUSE_DOWN", "MOUSE_UP",
     "MOUSE_MOVE", "?"}

\* C12: once a KILL has been handled, a later message of any type leaves the
\* Line Table, the lines on display, the search text, the font state and the
\* scrollbar (its dragging flag included) unchanged and draws nothing; stated
\* for the message that follows the KILL.
C12_NothingAfterKill ==
    [][(lastOp.op = "KILL" /\ lastOp'.op \in MessageTypes) =>
          /\ UNCHANGED <<linesRaw, lines, searchText, ctx, size, lineHeight, sb>>
          /\ renders' = 0]_vars

\* The messages textCenter is called with.
StatusMessages == {"loading", "parsing"}

\* C13: when a fetch fails the surface shows a centred status message in
\* place of content, no fetch is started in its stead, and an empty Line
\* Table stays empty.
C13_FetchFailureShowsMessage ==
    [][(lastOp'.op = "fetch failed") =>
          /\ surface' \in StatusMessages
          /\ drawn' = <<>>
          /\ PendingCount' = PendingCount - 1
          /\ (linesRaw = <<>> => linesRaw' = <<>>)]_vars

\* Whether row idx, [idx*h + o, idx*h + o + h), meets the viewport [0, H);
\* in tenths, h10 being lineHeight * size.
RowVisible(idx) ==
    LET h10 == lineHeight * size
        y10 == idx * h10 + 10 * sb.scrollOffset
    IN  y10 + h10 > 0 /\ y10 < 10 * height

C19_MemoizedSearchIsSearch ==
    /\ [](searcher.made =>
            /\ searcher.list = linesRaw
            /\ \A k \in 1..Len(searcher.cache) :
                  /\ searcher.cache[k].value =
                         quickStringSearchWithNumbers(linesRaw, searcher.cache[k].key)
                  /\ \A j \in 1..Len(searcher.cache) :
                        searcher.cache[j].key = searcher.cache[k].key => j = k)
    /\ [][(lastOp'.op = "SEARCH" /\ Cached(searcher, searchText')) =>
             /\ searcher' = searcher
             /\ lines' = CachedValue(searcher, searchText').results]_vars

\* A query answered from the cache of the second document's searcher: the
\* answer differs from the one the first document gives.
C19_Witness ==
    /\ lastOp.op = "SEARCH" /\ searchText.s # <<>>
    /\ Cached(searcher, searchText)
    /\ TableLetters(linesRaw) = Letters(Content("r2")) /\ linesRaw = searcher.list
    /\ lines # quickStringSearchWithNumbers(
                   reduceLinesWithNumbers(ctx.font, TextMaxWidth(width), Content("r1")),
                   searchText).results

\* C20: a message of no known type does not throw and changes nothing of the
\* worker: not the Line Table, the lines on display, the search text, the
\* font state or the scrollbar, nor the searcher, the text, the canvas or
\* what is outstanding; so what follows is handled as if it had not arrived.
C20_UnknownMessageIgnored ==
    [][(lastOp'.op = "?") =>
          /\ ~threw'
          /\ renders' = 0
          /\ UNCHANGED <<linesRaw, lines, searchText, ctx, size, lineHeight, sb,
                         searcher, rawContent, width, height, fetches, frames,
                         surface, drawn, currentRoute>>]_vars

\* An unknown message handled while a scrolled document is on display and the
\* thumb is being dragged.
C20_Witness ==
    /\ lastOp.op = "?" /\ Loaded
    /\ sb.scrollOffset < 0 /\ sb.dragging
    /\ Len(drawn) > 0

\* C27: in every state of the worker (before any INIT included) a SCROLL,
\* SEARCH, UPDATE, MOUSE_DOWN, MOUSE_UP or MOUSE_MOVE is handled without a
\* throw.
C27_HandlersDoNotThrow ==
    (lastOp.op \in {"SCROLL", "SEARCH", "UPDATE", "MOUSE_DOWN", "MOUSE_UP",
                    "MOUSE_MOVE"}) => ~threw

\* C28: when a load completes while a non-empty query is in effect (the
\* SEARCH came before the load had completed), the query stays in effect:
\* the lines on display are the results of the search for it over the new
\* Line Table, not the whole table.
C28_SearchSurvivesLoad ==
    [][(lastOp'.op = "loaded" /\ searchText.s # <<>>) =>
          /\ searchText' = searchText
          /\ lines' = quickStringSearchWithNumbers(linesRaw', searchText).results]_vars

\* C29: in the worker, once INIT has made the scrollbar, the scroll offset is
\* within the scrollbar's bounds [minScroll, 0] after every message and after
\* every completed load.
C29_WorkerOffsetWithinBounds ==
    sb.made => (sb.minScroll <= sb.scrollOffset /\ sb.scrollOffset <= 0)

\* A scroll that was stopped at the lower bound of a loaded document.
C29_Witness ==
    /\ Loaded /\ sb.minScroll < 0
    /\ lastOp.op = "SCROLL" /\ sb.scrollOffset = sb.minScroll

-----------------------------------------------------------------------------
(* Properties of the auto-scroll hook. *)

Scrolling == hook.phase = "mounted" /\ hook.props.worker /\ hook.props.enabled

\* C26: while the hook is mounted with a worker and enabled = true, one timer
\* is set, with the time and the amount of the props, and each interval of
\* `time` that ends posts exactly one SCROLL {scrollDelta: amount}; while it
\* is disabled, and after the unmount, no timer is set and nothing is posted;
\* never is more than one timer set.
C26_OneScrollPerInterval ==
    /\ [](/\ Cardinality(hook.timers) <= 1
          /\ Scrolling =>
                \E t \in hook.timers :
                    t.time = hook.props.time /\ t.amount = hook.props.amount
          /\ (hook.phase # "new" /\ ~Scrolling) => hook.timers = {})
    /\ [][(lastOp'.op = "tick") =>
             posted' = IF Scrolling /\ (\E t \in hook.timers : t.elapsed + 1 = t.time)
                       THEN <<[type |-> "SCROLL", scrollDelta |-> hook.props.amount]>>
                       ELSE <<>>]_vars

\* A SCROLL posted by the timer that replaced an earlier one.
C26_Witness ==
    /\ lastOp.op = "tick" /\ Scrolling
    /\ posted = <<[type |-> "SCROLL", scrollDelta |-> 5]>>
    /\ hook.props.time = 2 /\ hook.current > 1

====
